---- MODULE Spec2Model ----
(***************************************************************************)
(* A model of the configuration synchronization protocol of useeio-widgets *)
(* (src/src/widget.ts): the Widget base class with its readiness gate, the *)
(* UrlConfigTransmitter hub and the URL codec (updateHash / parseUrlConfig)*)
(* Strings are TLA+ strings; a character is a string of length one.        *)
(***************************************************************************)
EXTENDS Integers, Sequences, FiniteSets, TLC

(***************************************************************************)
(* JavaScript string primitives used by the codec                          *)
(***************************************************************************)

\* the character of s at position i (1-based)
charAt(s, i) == SubSeq(s, i, i)

\* the least element of a non-empty set of positions
minOf(S) == CHOOSE i \in S : \A j \in S : i <= j
maxOf(S) == CHOOSE i \in S : \A j \in S : j <= i

RECURSIVE split(_, _)
\* String.prototype.split with a one-character separator: the pieces
\* between the occurrences of d, so "".split(d) = [""]
split(s, d) ==
    LET at == {i \in 1..Len(s) : charAt(s, i) = d}
    IN  IF at = {} THEN <<s>>
        ELSE <<SubSeq(s, 1, minOf(at) - 1)>>
                 \o split(SubSeq(s, minOf(at) + 1, Len(s)), d)

RECURSIVE join(_, _)
\* Array.prototype.join
join(parts, d) ==
    IF parts = <<>> THEN ""
    ELSE IF Len(parts) = 1 THEN parts[1]
         ELSE parts[1] \o d \o join(Tail(parts), d)

isSpace(c) == c = " "

\* String.prototype.trim: from the first to the last character that is not
\* white space
trim(s) ==
    LET at == {i \in 1..Len(s) : ~isSpace(charAt(s, i))}
    IN  IF at = {} THEN ""
        ELSE SubSeq(s, minOf(at), maxOf(at))

\* String.prototype.trimStart, as parseInt skips leading white space
trimStart(s) ==
    LET at == {i \in 1..Len(s) : ~isSpace(charAt(s, i))}
    IN  IF at = {} THEN ""
        ELSE SubSeq(s, minOf(at), Len(s))

UpperChars == <<"A","B","C","D","E","F","G","H","I","J","K","L","M",
                "N","O","P","Q","R","S","T","U","V","W","X","Y","Z">>
LowerChars == <<"a","b","c","d","e","f","g","h","i","j","k","l","m",
                "n","o","p","q","r","s","t","u","v","w","x","y","z">>

lowerChar(c) ==
    IF \E i \in 1..Len(UpperChars) : UpperChars[i] = c
    THEN LowerChars[CHOOSE i \in 1..Len(UpperChars) : UpperChars[i] = c]
    ELSE c

RECURSIVE toLowerCase(_)
\* String.prototype.toLowerCase, character by character
toLowerCase(s) ==
    IF Len(s) = 0 THEN ""
    ELSE IF Len(s) = 1 THEN lowerChar(s)
    ELSE LET h == Len(s) \div 2
         IN  toLowerCase(SubSeq(s, 1, h)) \o toLowerCase(SubSeq(s, h + 1, Len(s)))

(***************************************************************************)
(* JavaScript numbers: the integers and NaN                                *)
(***************************************************************************)
Num(n) == [nan |-> FALSE, n |-> n]
NaN == [nan |-> TRUE, n |-> 0]

Digits == <<"0","1","2","3","4","5","6","7","8","9">>
isDigit(c) == \E i \in 1..Len(Digits) : Digits[i] = c
digitVal(c) == (CHOOSE i \in 1..Len(Digits) : Digits[i] = c) - 1

RECURSIVE digitsValue(_)
\* the value of a string of decimal digits
digitsValue(s) ==
    IF s = "" THEN 0
    ELSE digitsValue(SubSeq(s, 1, Len(s) - 1)) * 10 + digitVal(charAt(s, Len(s)))

\* the longest prefix of s made of decimal digits
digitsPrefix(s) ==
    LET stop == {i \in 1..Len(s) : ~isDigit(charAt(s, i))}
    IN  IF stop = {} THEN s
        ELSE SubSeq(s, 1, minOf(stop) - 1)

\* parseInt(s, 10): leading white space, an optional sign, then the longest
\* prefix of digits; NaN when there is no digit. It never throws.
parseInt(s) ==
    LET t == trimStart(s)
        neg == t # "" /\ Head(t) = "-"
        signed == t # "" /\ (Head(t) = "-" \/ Head(t) = "+")
        d == digitsPrefix(IF signed THEN Tail(t) ELSE t)
    IN  IF d = "" THEN NaN
        ELSE Num(IF neg THEN 0 - digitsValue(d) ELSE digitsValue(d))

RECURSIVE natToString(_)
natToString(n) ==
    IF n < 10 THEN Digits[n + 1]
    ELSE natToString(n \div 10) \o Digits[(n % 10) + 1]

\* the string a template literal `${val}` gives for a number
numToString(v) ==
    IF v.nan THEN "NaN"
    ELSE IF v.n < 0 THEN "-" \o natToString(0 - v.n) ELSE natToString(v.n)

(***************************************************************************)
(* Config (widget.ts 9-51): def holds the names of the properties the      *)
(* object has; a property that is not in def holds its default below.      *)
(***************************************************************************)
Fields == {"sectors", "indicators", "analysis", "perspective", "year",
           "location", "model", "source"}

EmptyConfig ==
    [def |-> {}, sectors |-> <<>>, indicators |-> <<>>, analysis |-> "",
     perspective |-> "", year |-> Num(0), location |-> "", model |-> "",
     source |-> ""]

\* config[f] = v
setField(c, f, v) == [c EXCEPT !.def = @ \cup {f}, ![f] = v]

\* JavaScript truthiness of config[f]: an array is truthy even when empty,
\* a string when non-empty, a number unless 0 or NaN, undefined never
truthy(c, f) ==
    /\ f \in c.def
    /\ CASE f \in {"sectors", "indicators"} -> TRUE
         [] f = "year" -> ~c.year.nan /\ c.year.n # 0
         [] OTHER -> c[f] # ""

\* the object spread { ...a, ...b }: every property of b overrides a's
spread(a, b) ==
    [def |-> a.def \cup b.def,
     sectors |-> IF "sectors" \in b.def THEN b.sectors ELSE a.sectors,
     indicators |-> IF "indicators" \in b.def THEN b.indicators ELSE a.indicators,
     analysis |-> IF "analysis" \in b.def THEN b.analysis ELSE a.analysis,
     perspective |-> IF "perspective" \in b.def THEN b.perspective ELSE a.perspective,
     year |-> IF "year" \in b.def THEN b.year ELSE a.year,
     location |-> IF "location" \in b.def THEN b.location ELSE a.location,
     model |-> IF "model" \in b.def THEN b.model ELSE a.model,
     source |-> IF "source" \in b.def THEN b.source ELSE a.source]

(***************************************************************************)
(* Decoding: URL -> Config (widget.ts 206-365)                             *)
(***************************************************************************)

\* a nullable string is <<>> (null) or <<s>>
Null == <<>>

\* getHashPart(url)
getHashPart(url) ==
    IF url = "" THEN Null
    ELSE LET parts == split(url, "#")
         IN  IF Len(parts) < 2 THEN Null ELSE <<parts[Len(parts)]>>

\* getParameterPart(url)
getParameterPart(url) ==
    IF url = "" THEN Null
    ELSE LET hparts == split(url, "#")
             part == IF Len(hparts) > 1 THEN hparts[Len(hparts) - 1] ELSE url
             parts == split(part, "?")
         IN  IF Len(parts) < 2 THEN Null ELSE <<parts[2]>>

RECURSIVE pairsToParams(_)
pairsToParams(pairs) ==
    IF pairs = <<>> THEN <<>>
    ELSE LET keyVal == split(Head(pairs), "=")
             rest == pairsToParams(Tail(pairs))
         IN  IF Len(keyVal) < 2 THEN rest
             ELSE << <<toLowerCase(trim(keyVal[1])), trim(keyVal[2])>> >> \o rest

\* getParameters(urlPart): the [key, value] pairs of a nullable URL part
getParameters(urlPart) ==
    IF urlPart = Null \/ urlPart[1] = "" THEN <<>>
    ELSE pairsToParams(split(urlPart[1], "&"))

\* strings.eq of ./strings: equality of two strings ignoring case
strings_eq(a, b) == toLowerCase(trim(a)) = toLowerCase(trim(b))

\* getPerspective(val): "" stands for null
getPerspective(val) ==
    IF val = "" THEN ""
    ELSE LET v == toLowerCase(trim(val))
         IN  CASE v \in {"direct", "direct results", "supply", "supply chain"}
                    -> "direct"
               [] v \in {"final", "final results", "consumption",
                         "final consumption", "point of consumption"}
                    -> "final"
               [] v \in {"intermediate", "intermediate results"}
                    -> "intermediate"
               [] OTHER -> ""

\* one iteration of the loop of updateConfig: the switch on the key
updateParam(config, key, val) ==
    CASE key = "model" ->
           IF truthy(config, "model") THEN config
           ELSE setField(config, "model", val)
      [] key = "sectors" ->
           IF truthy(config, "sectors") THEN config
           ELSE setField(config, "sectors", split(val, ","))
      [] key = "indicators" ->
           IF truthy(config, "indicators") THEN config
           ELSE setField(config, "indicators", split(val, ","))
      [] key \in {"type", "analysis"} ->
           IF truthy(config, "analysis") THEN config
           ELSE IF strings_eq(val, "consumption")
                THEN setField(config, "analysis", "Consumption")
           ELSE IF strings_eq(val, "production")
                THEN setField(config, "analysis", "Production")
           ELSE config
      [] key = "perspective" ->
           IF truthy(config, "perspective") THEN config
           ELSE LET p == getPerspective(val)
                IN  IF p # "" THEN setField(config, "perspective", p)
                    ELSE config
      [] key = "location" ->
           IF truthy(config, "location") THEN config
           ELSE setField(config, "location", val)
      [] key = "year" ->
           \* parseInt does not throw: the catch branch is never taken
           IF truthy(config, "year") THEN config
           ELSE setField(config, "year", parseInt(val))
      [] OTHER -> config

RECURSIVE updateConfig(_, _)
\* updateConfig(config, urlParams)
updateConfig(config, urlParams) ==
    IF urlParams = <<>> THEN config
    ELSE updateConfig(updateParam(config, Head(urlParams)[1], Head(urlParams)[2]),
                      Tail(urlParams))

RECURSIVE parseUrls(_, _)
\* the loop of parseUrlConfig over the urls: hash first, then the query
parseUrls(config, urls) ==
    IF urls = <<>> THEN config
    ELSE LET url == Head(urls)
             hashParams == getParameters(getHashPart(url))
             otherParams == getParameters(getParameterPart(url))
         IN  parseUrls(updateConfig(updateConfig(config, hashParams), otherParams),
                       Tail(urls))

\* parseUrlConfig(what): the page URL, then (withScripts) every script
\* tag's src that is not empty
parseUrlConfig(pageUrl, scriptSrcs, withScripts) ==
    parseUrls(EmptyConfig,
              <<pageUrl>> \o (IF withScripts
                              THEN SelectSeq(scriptSrcs, LAMBDA u : u # "")
                              ELSE <<>>))

(***************************************************************************)
(* Encoding: Config -> URL hash (widget.ts 175-196)                        *)
(***************************************************************************)

\* updateHash without the test of the lists' length
hashParts_emptyLists(conf) ==
    (IF truthy(conf, "sectors")
     THEN <<"sectors=" \o join(conf.sectors, ",")>> ELSE <<>>)
    \o (IF truthy(conf, "indicators")
        THEN <<"indicators=" \o join(conf.indicators, ",")>> ELSE <<>>)
    \o (IF truthy(conf, "analysis") THEN <<"type=" \o conf.analysis>> ELSE <<>>)
    \o (IF truthy(conf, "perspective")
        THEN <<"perspective=" \o conf.perspective>> ELSE <<>>)
    \o (IF truthy(conf, "year")
        THEN <<"year=" \o numToString(conf.year)>> ELSE <<>>)
    \o (IF truthy(conf, "location")
        THEN <<"location=" \o conf.location>> ELSE <<>>)
    \o (IF truthy(conf, "model") THEN <<"model=" \o conf.model>> ELSE <<>>)

\* the parts array of updateHash
hashParts(conf) ==
    (IF truthy(conf, "sectors") /\ Len(conf.sectors) > 0
     THEN <<"sectors=" \o join(conf.sectors, ",")>> ELSE <<>>)
    \o (IF truthy(conf, "indicators") /\ Len(conf.indicators) > 0
        THEN <<"indicators=" \o join(conf.indicators, ",")>> ELSE <<>>)
    \o (IF truthy(conf, "analysis") THEN <<"type=" \o conf.analysis>> ELSE <<>>)
    \o (IF truthy(conf, "perspective")
        THEN <<"perspective=" \o conf.perspective>> ELSE <<>>)
    \o (IF truthy(conf, "year")
        THEN <<"year=" \o numToString(conf.year)>> ELSE <<>>)
    \o (IF truthy(conf, "location")
        THEN <<"location=" \o conf.location>> ELSE <<>>)
    \o (IF truthy(conf, "model") THEN <<"model=" \o conf.model>> ELSE <<>>)

\* the value updateHash assigns to window.location.hash
encodeHash(conf) == "#" \o join(hashParts(conf), "&")

\* the browser's location.hash setter: the URL up to its first "#", then
\* "#" and the new fragment (the value without its leading "#")
setLocationHash(url, value) ==
    split(url, "#")[1] \o "#"
        \o (IF value # "" /\ Head(value) = "#" THEN Tail(value) ELSE value)

(***************************************************************************)
(* State                                                                   *)
(***************************************************************************)
VARIABLES
    isReady,     \* Widget.isReady, per widget
    queue,       \* Widget.queue, per widget: the configs of the queued closures
    listeners,   \* Widget.listeners, per widget: the widget each closure
                 \* registered by join captured
    widgets,     \* UrlConfigTransmitter.widgets
    config,      \* UrlConfigTransmitter.config
    href,        \* window.location.href
    scriptSrcs,  \* the src of the script tags of the document
    pending,     \* hashchange / popstate events not yet delivered
    invoked,     \* the calls of handleUpdate made by the last operation
    lastOp,      \* the last operation and its arguments
    apiModel,    \* the Model handed to HeatmapResult.from
    apiResult,   \* the Result handed to HeatmapResult.from
    heatmap,     \* the HeatmapResult constructed, if any
    answer       \* what the last query of the HeatmapResult returned

vars == <<isReady, queue, listeners, widgets, config, href, scriptSrcs,
          pending, invoked, lastOp, apiModel, apiResult, heatmap, answer>>

\* the variables of the result pipeline (src/src/calc/heatmap-result.ts)
heatmapVars == <<apiModel, apiResult, heatmap, answer>>

\* no HeatmapResult on the page
noHeatmap ==
    /\ apiModel = <<>>
    /\ apiResult = <<>>
    /\ heatmap = <<>>
    /\ answer = <<>>

WidgetIds == {"w1", "w2"}
TransmitterId == "T"

\* bounds of the model: the closures queued on a widget by direct calls of
\* update, and by the pushes of a transmitter; the length of the
\* transmitter's widget list; the navigation events not yet delivered
MaxQueue == 2
MaxPushed == 1
MaxJoined == 2
MaxPending == 1

(***************************************************************************)
(* Inputs: the configs widgets and pages pass in, the URLs of the page     *)
(***************************************************************************)
SectorsAB == setField(EmptyConfig, "sectors", <<"a", "b">>)
NoSectors == setField(EmptyConfig, "sectors", <<>>)
Production0 == setField(setField(EmptyConfig, "analysis", "Production"),
                        "year", Num(0))
Consumption2020 == setField(setField(EmptyConfig, "analysis", "Consumption"),
                            "year", Num(2020))

\* the configs a widget passes to fireChange
ChangeConfigs == {SectorsAB, NoSectors}

\* the configs a page passes to UrlConfigTransmitter.update
TransmitterConfigs == {Production0}

\* the arguments a page passes to UrlConfigTransmitter.updateIfAbsent
IfAbsentArgs == {Null, <<Consumption2020>>}

\* the arguments other callers pass to Widget.update: null, a config
\* without source, and configs stamped by either widget
UpdateArgs ==
    {Null, <<SectorsAB>>, <<Production0>>}
    \cup {<<setField(SectorsAB, "source", w)>> : w \in WidgetIds}

\* the page URLs at construction, the script URLs, and the fragments a
\* user navigates to
PageUrls == {"p#year=2020"}
ScriptSrcs == {<<>>}
UserHashes == {"#year=abc", "#sectors=a,b"}

(***************************************************************************)
(* Widget (widget.ts 53-92)                                                *)
(***************************************************************************)

\* Widget.update without the test of config.source
Widget_update_noEchoTest(ws, w, arg) ==
    IF arg = Null THEN ws
    ELSE IF ~ws.isReady[w]
         THEN [ws EXCEPT !.queue[w] = Append(@, arg[1])]
         ELSE [ws EXCEPT !.invoked = Append(@, [w |-> w, config |-> arg[1]])]

\* update that queues the config even when the widget is ready
Widget_update_alwaysQueue(ws, w, arg) ==
    IF arg = Null \/ arg[1].source = w THEN ws
    ELSE [ws EXCEPT !.queue[w] = Append(@, arg[1])]

\* Widget.update(config) on widget w, arg a nullable config; ws is the
\* state of the widgets: [isReady, queue, invoked]
Widget_update(ws, w, arg) ==
    IF arg = Null \/ arg[1].source = w THEN ws
    ELSE IF ~ws.isReady[w]
         THEN [ws EXCEPT !.queue[w] = Append(@, arg[1])]
         ELSE [ws EXCEPT !.invoked = Append(@, [w |-> w, config |-> arg[1]])]

\* Widget.ready() taking the oldest queued closure (shift) instead of the
\* newest (pop)
Widget_ready_shift(ws, w) ==
    LET r == [ws EXCEPT !.isReady[w] = TRUE]
        q == ws.queue[w]
    IN  IF Len(q) = 0 THEN r
        ELSE [r EXCEPT !.queue[w] = Tail(q),
                       !.invoked = Append(@, [w |-> w, config |-> q[1]])]

\* Widget.ready() on widget w
Widget_ready(ws, w) ==
    LET r == [ws EXCEPT !.isReady[w] = TRUE]
        q == ws.queue[w]
    IN  IF Len(q) = 0 THEN r
        ELSE [r EXCEPT !.queue[w] = SubSeq(q, 1, Len(q) - 1),
                       !.invoked = Append(@, [w |-> w, config |-> q[Len(q)]])]

\* the widgets' state before an operation: no handler call made yet
widgetState == [isReady |-> isReady, queue |-> queue, invoked |-> <<>>]

\* the concrete widget calls ready() once, when its initialization completes
readyNotYetCalled(w) == ~isReady[w]

(***************************************************************************)
(* UrlConfigTransmitter (widget.ts 101-197)                                *)
(***************************************************************************)

\* the transmitter's state with the browser location: [config, href, pending]
transmitterState == [config |-> config, href |-> href, pending |-> pending]

\* updateHash(): a hashchange event is queued when the fragment changes
updateHash(ts) ==
    LET url == setLocationHash(ts.href, encodeHash(ts.config))
    IN  [ts EXCEPT !.href = url,
                   !.pending = IF url = ts.href THEN @ ELSE @ + 1]

\* the listener with the spread the other way round: the stored
\* properties override the event's
joinListener_storedWins(ts, widget, c) ==
    updateHash([ts EXCEPT !.config = setField(spread(c, ts.config),
                                              "source", widget)])

\* the listener join registers on a widget: merge, stamp, rewrite the hash
joinListener(ts, widget, c) ==
    updateHash([ts EXCEPT !.config = setField(spread(ts.config, c),
                                              "source", widget)])

RECURSIVE notifyListeners(_, _, _)
\* the loop of fireChange over the listeners
notifyListeners(ts, ls, c) ==
    IF ls = <<>> THEN ts
    ELSE notifyListeners(joinListener(ts, Head(ls), c), Tail(ls), c)

\* Widget.fireChange(config) on widget w
Widget_fireChange(ts, w, c) ==
    notifyListeners(ts, listeners[w], setField(c, "source", w))

RECURSIVE updateWidgets(_, _, _)
\* for (const widget of this.widgets) widget.update(c)
updateWidgets(ws, joined, c) ==
    IF joined = <<>> THEN ws
    ELSE updateWidgets(Widget_update(ws, Head(joined), <<c>>), Tail(joined), c)

\* UrlConfigTransmitter.update(config)
Transmitter_update(ts, c) ==
    updateHash([ts EXCEPT !.config = setField(spread(ts.config, c),
                                              "source", TransmitterId)])

\* the config updateIfAbsent builds: the stored one, with the properties of
\* conf whose stored value is falsy
absentMerged(stored, conf) ==
    LET fs == {f \in conf.def : ~truthy(stored, f)}
    IN  spread(stored, [conf EXCEPT !.def = fs])

\* UrlConfigTransmitter.updateIfAbsent(conf), conf nullable
Transmitter_updateIfAbsent(ts, arg) ==
    IF arg = Null THEN ts
    ELSE IF \E f \in arg[1].def : ~truthy(ts.config, f)
         THEN Transmitter_update(ts, absentMerged(ts.config, arg[1]))
         ELSE ts

\* onHashChanged with the spread the other way round
hashChangedConfig_storedWins(stored, url) ==
    spread(parseUrlConfig(url, <<>>, FALSE), stored)

\* onHashChanged without the spread of the stored config
hashChangedConfig_urlOnly(stored, url) ==
    parseUrlConfig(url, <<>>, FALSE)

\* UrlConfigTransmitter.onHashChanged(): the merged config
hashChangedConfig(stored, url) ==
    spread(stored, parseUrlConfig(url, <<>>, FALSE))

(***************************************************************************)
(* Operations                                                              *)
(***************************************************************************)
setWidgets(ws) ==
    /\ isReady' = ws.isReady
    /\ queue' = ws.queue
    /\ invoked' = ws.invoked

setTransmitter(ts) ==
    /\ config' = ts.config
    /\ href' = ts.href
    /\ pending' = ts.pending

queueBounded(ws) == \A w \in WidgetIds : Len(ws.queue[w]) <= MaxQueue
pushBounded(ws) == \A w \in WidgetIds : Len(ws.queue[w]) <= MaxPushed

op(name, w, arg) == [op |-> name, w |-> w, arg |-> arg]

\* new UrlConfigTransmitter() on a freshly loaded page, no widget joined
Init ==
    /\ isReady = [w \in WidgetIds |-> FALSE]
    /\ queue = [w \in WidgetIds |-> <<>>]
    /\ listeners = [w \in WidgetIds |-> <<>>]
    /\ widgets = <<>>
    /\ href \in PageUrls
    /\ scriptSrcs \in ScriptSrcs
    /\ config = parseUrlConfig(href, scriptSrcs, TRUE)
    /\ pending = 0
    /\ invoked = <<>>
    /\ lastOp = op("constructor", "", Null)
    /\ noHeatmap

\* some caller other than the transmitter calls widget.update(arg)
WidgetUpdate(w, arg) ==
    LET ws == Widget_update(widgetState, w, arg)
    IN  /\ queueBounded(ws)
        /\ setWidgets(ws)
        /\ lastOp' = op("Widget.update", w, arg)
        /\ UNCHANGED <<listeners, widgets, config, href, scriptSrcs, pending,
                       heatmapVars>>

\* the concrete widget finishes its initialization and calls ready()
WidgetReady(w) ==
    /\ readyNotYetCalled(w)
    /\ setWidgets(Widget_ready(widgetState, w))
    /\ lastOp' = op("ready", w, Null)
    /\ UNCHANGED <<listeners, widgets, config, href, scriptSrcs, pending,
                   heatmapVars>>

\* the concrete widget calls fireChange(c) with a fresh config object
FireChange(w, c) ==
    LET ts == Widget_fireChange(transmitterState, w, c)
    IN  /\ ts.pending <= MaxPending
        /\ setTransmitter(ts)
        /\ invoked' = <<>>
        /\ lastOp' = op("fireChange", w, <<c>>)
        /\ UNCHANGED <<isReady, queue, listeners, widgets, scriptSrcs,
                       heatmapVars>>

\* join that registers the widget and the listener but pushes nothing
Join_noPush(w) ==
    /\ Len(widgets) < MaxJoined
    /\ widgets' = Append(widgets, w)
    /\ setWidgets(widgetState)
    /\ listeners' = [listeners EXCEPT ![w] = Append(@, w)]
    /\ lastOp' = op("join", w, Null)
    /\ UNCHANGED <<config, href, scriptSrcs, pending, heatmapVars>>

\* transmitter.join(w)
Join(w) ==
    LET ws == Widget_update(widgetState, w, <<config>>)
    IN  /\ Len(widgets) < MaxJoined
        /\ pushBounded(ws)
        /\ widgets' = Append(widgets, w)
        /\ setWidgets(ws)
        /\ listeners' = [listeners EXCEPT ![w] = Append(@, w)]
        /\ lastOp' = op("join", w, Null)
        /\ UNCHANGED <<config, href, scriptSrcs, pending, heatmapVars>>

\* update that also pushes the new config to the joined widgets
TransmitterUpdate_pushing(c) ==
    LET ts == Transmitter_update(transmitterState, c)
        ws == updateWidgets(widgetState, widgets, ts.config)
    IN  /\ ts.pending <= MaxPending
        /\ setTransmitter(ts)
        /\ setWidgets(ws)
        /\ lastOp' = op("update", "", <<c>>)
        /\ UNCHANGED <<listeners, widgets, scriptSrcs, heatmapVars>>

\* transmitter.update(c)
TransmitterUpdate(c) ==
    LET ts == Transmitter_update(transmitterState, c)
    IN  /\ ts.pending <= MaxPending
        /\ setTransmitter(ts)
        /\ invoked' = <<>>
        /\ lastOp' = op("update", "", <<c>>)
        /\ UNCHANGED <<isReady, queue, listeners, widgets, scriptSrcs,
                       heatmapVars>>

\* transmitter.updateIfAbsent(arg)
UpdateIfAbsent(arg) ==
    LET ts == Transmitter_updateIfAbsent(transmitterState, arg)
    IN  /\ ts.pending <= MaxPending
        /\ setTransmitter(ts)
        /\ invoked' = <<>>
        /\ lastOp' = op("updateIfAbsent", "", arg)
        /\ UNCHANGED <<isReady, queue, listeners, widgets, scriptSrcs,
                       heatmapVars>>

\* transmitter.clearAll(): window.location.hash = ""
ClearAll ==
    LET url == setLocationHash(href, "")
    IN  /\ pending + (IF url = href THEN 0 ELSE 1) <= MaxPending
        /\ href' = url
        /\ pending' = pending + (IF url = href THEN 0 ELSE 1)
        /\ invoked' = <<>>
        /\ lastOp' = op("clearAll", "", Null)
        /\ UNCHANGED <<isReady, queue, listeners, widgets, config, scriptSrcs,
                       heatmapVars>>

\* the user edits the fragment or goes back / forward to another one
UserNavigate(h) ==
    LET url == setLocationHash(href, h)
    IN  /\ url # href
        /\ pending < MaxPending
        /\ href' = url
        /\ pending' = pending + 1
        /\ invoked' = <<>>
        /\ lastOp' = op("navigate", "", Null)
        /\ UNCHANGED <<isReady, queue, listeners, widgets, config, scriptSrcs,
                       heatmapVars>>

\* the browser delivers a hashchange / popstate event: onHashChanged()
OnHashChanged ==
    LET c == hashChangedConfig(config, href)
        ws == updateWidgets(widgetState, widgets, c)
    IN  /\ pending > 0
        /\ pushBounded(ws)
        /\ pending' = pending - 1
        /\ config' = c
        /\ setWidgets(ws)
        /\ lastOp' = op("onHashChanged", "", Null)
        /\ UNCHANGED <<listeners, widgets, href, scriptSrcs, heatmapVars>>

Next ==
    \/ \E w \in WidgetIds : WidgetReady(w)
    \/ \E w \in WidgetIds, c \in ChangeConfigs : FireChange(w, c)
    \/ \E w \in WidgetIds : Join(w)
    \/ \E c \in TransmitterConfigs : TransmitterUpdate(c)
    \/ \E h \in UserHashes : UserNavigate(h)
    \/ OnHashChanged

\* the synchronization protocol: widgets, one transmitter, the browser
Spec == Init /\ [][Next]_vars

\* a widget whose update is called by arbitrary callers
NextWidget ==
    \/ \E w \in WidgetIds, arg \in UpdateArgs : WidgetUpdate(w, arg)
    \/ \E w \in WidgetIds : WidgetReady(w)

SpecWidget == Init /\ [][NextWidget]_vars

\* the transmitter driven by the page: update, updateIfAbsent, clearAll
\* and the navigation events these cause, with widgets joined
NextTransmitter ==
    \/ \E w \in WidgetIds : WidgetReady(w)
    \/ \E w \in WidgetIds : Join(w)
    \/ \E w \in WidgetIds : FireChange(w, SectorsAB)
    \/ \E c \in TransmitterConfigs : TransmitterUpdate(c)
    \/ \E arg \in IfAbsentArgs : UpdateIfAbsent(arg)
    \/ ClearAll
    \/ OnHashChanged

\* a page with a fragment only, and one whose query string has a parameter
\* that the fragment has as well
TransmitterPageUrls == PageUrls \cup {"p?year=1995#year=2020"}

\* new UrlConfigTransmitter() on one of these pages
InitTransmitter ==
    /\ isReady = [w \in WidgetIds |-> FALSE]
    /\ queue = [w \in WidgetIds |-> <<>>]
    /\ listeners = [w \in WidgetIds |-> <<>>]
    /\ widgets = <<>>
    /\ href \in TransmitterPageUrls
    /\ scriptSrcs \in ScriptSrcs
    /\ config = parseUrlConfig(href, scriptSrcs, TRUE)
    /\ pending = 0
    /\ invoked = <<>>
    /\ lastOp = op("constructor", "", Null)
    /\ noHeatmap

SpecTransmitter == InitTransmitter /\ [][NextTransmitter]_vars

(***************************************************************************)
(* The codec on its own: a page is loaded, the transmitter is constructed  *)
(* from its URL and script tags, update(c) writes the hash, and the page   *)
(* is loaded again from the URL that was written (a shared link).          *)
(***************************************************************************)
AllFields ==
    setField(setField(setField(setField(setField(setField(setField(EmptyConfig,
        "sectors", <<"a", "b">>), "indicators", <<"x">>),
        "analysis", "Production"), "perspective", "final"),
        "year", Num(2020)), "location", "US"), "model", "m1")
ConsumptionDirect ==
    setField(setField(EmptyConfig, "analysis", "Consumption"),
             "perspective", "direct")
ModelWithAmpersand == setField(EmptyConfig, "model", "a&b")

\* the configs written to the URL and read back
RoundTripConfigs == {AllFields, ConsumptionDirect, NoSectors, ModelWithAmpersand}

CodecPageUrls ==
    {"p",
     "p?year=1995#year=2020",
     "p?model=M1#sectors=a,b&year=2020",
     "p?year=1995#year=0",
     "p?model=m1&year=7#year=abc",
     "p?TYPE=consumption&perspective=nope#Perspective= Final Results &type=other"}
CodecScriptSrcs ==
    {<<>>,
     <<"", "s.js?model=m2&location=US#year=1999&indicators=x,y">>,
     <<"s.js#model=m3&perspective=supply chain", "t.js?model=m4#location=GA">>}

\* the page is loaded: the transmitter's config is still its initializer {}
InitCodec ==
    /\ isReady = [w \in WidgetIds |-> FALSE]
    /\ queue = [w \in WidgetIds |-> <<>>]
    /\ listeners = [w \in WidgetIds |-> <<>>]
    /\ widgets = <<>>
    /\ href \in CodecPageUrls
    /\ scriptSrcs \in CodecScriptSrcs
    /\ config = EmptyConfig
    /\ pending = 0
    /\ invoked = <<>>
    /\ lastOp = op("load", "", Null)
    /\ noHeatmap

\* the constructor of UrlConfigTransmitter
Construct ==
    /\ lastOp.op = "load"
    /\ config' = parseUrlConfig(href, scriptSrcs, TRUE)
    /\ lastOp' = op("constructor", "", Null)
    /\ UNCHANGED <<isReady, queue, listeners, widgets, href, scriptSrcs,
                   pending, invoked, heatmapVars>>

\* the page is loaded again from the URL as update(c) left it: a new
\* transmitter is constructed
Reload ==
    /\ lastOp.op = "update"
    /\ config' = parseUrlConfig(href, scriptSrcs, TRUE)
    /\ pending' = 0
    /\ lastOp' = op("reload", "", lastOp.arg)
    /\ UNCHANGED <<isReady, queue, listeners, widgets, href, scriptSrcs, invoked,
                   heatmapVars>>

NextCodec ==
    \/ Construct
    \/ lastOp.op = "constructor" /\ \E c \in RoundTripConfigs : TransmitterUpdate(c)
    \/ Reload

SpecCodec == InitCodec /\ [][NextCodec]_vars

(***************************************************************************)
(* JavaScript numbers of the result pipeline                               *)
(* (src/src/calc/heatmap-result.ts). A number is a fraction n/d in lowest  *)
(* terms; the arithmetic operators round their exact result to the nearest *)
(* binary floating-point number, ties to even, as IEEE 754 does, with a    *)
(* significand of Precision bits instead of the 53 bits of a double.       *)
(***************************************************************************)
Precision == 8

absInt(n) == IF n < 0 THEN -n ELSE n

RECURSIVE gcd(_, _)
gcd(a, b) == IF b = 0 THEN a ELSE gcd(b, a % b)

RECURSIVE pow2(_)
pow2(k) == IF k = 0 THEN 1 ELSE 2 * pow2(k - 1)

\* the fraction n/d, d # 0, in lowest terms with a positive denominator
Q(n, d) ==
    LET g == gcd(absInt(n), absInt(d))
        sgn == IF d < 0 THEN -1 ELSE 1
    IN  [n |-> sgn * (n \div g), d |-> sgn * (d \div g)]

Zero == Q(0, 1)
Hundred == Q(100, 1)
int(k) == Q(k, 1)

\* exact arithmetic on fractions, the common factors taken out first
qAdd(a, b) ==
    LET g == gcd(a.d, b.d)
    IN  Q(a.n * (b.d \div g) + b.n * (a.d \div g), (a.d \div g) * b.d)
qMul(a, b) ==
    LET g1 == gcd(absInt(a.n), b.d)
        g2 == gcd(absInt(b.n), a.d)
    IN  Q((a.n \div g1) * (b.n \div g2), (a.d \div g2) * (b.d \div g1))
qDiv(a, b) == qMul(a, Q(b.d, b.n))
qNeg(a) == [n |-> -a.n, d |-> a.d]
qLess(a, b) ==
    LET g == gcd(a.d, b.d)
    IN  a.n * (b.d \div g) < b.n * (a.d \div g)
qLeq(a, b) == a = b \/ qLess(a, b)

\* a / b for naturals rounded to the nearest integer, ties to even
roundHalfEven(a, b) ==
    LET q == a \div b
        r == a % b
    IN  IF 2 * r < b THEN q
        ELSE IF 2 * r > b THEN q + 1
        ELSE IF q % 2 = 0 THEN q ELSE q + 1

\* a/d scaled by a power of two into [2^(Precision-1), 2^Precision):
\* a/d times 2^e is the fraction the function started from
RECURSIVE scaled(_, _, _)
scaled(a, d, e) ==
    IF a >= pow2(Precision) * d THEN scaled(a, 2 * d, e + 1)
    ELSE IF a < pow2(Precision - 1) * d THEN scaled(2 * a, d, e - 1)
    ELSE [a |-> a, d |-> d, e |-> e]

\* the floating-point number nearest to the fraction q
fl(q) ==
    IF q.n = 0 THEN Zero
    ELSE LET s == scaled(absInt(q.n), q.d, 0)
             m == roundHalfEven(s.a, s.d) * (IF q.n < 0 THEN -1 ELSE 1)
         IN  IF s.e >= 0 THEN Q(m * pow2(s.e), 1) ELSE Q(m, pow2(-s.e))

\* the operators +, *, / and Math.abs, Math.max of JavaScript
numAdd(a, b) == fl(qAdd(a, b))
numMul(a, b) == fl(qMul(a, b))
numDiv(a, b) == fl(qDiv(a, b))
Math_abs(a) == [n |-> absInt(a.n), d |-> a.d]
Math_max(a, b) == IF qLess(a, b) THEN b ELSE a

(***************************************************************************)
(* The result pipeline: aggregateByRegions, the constructor of             *)
(* HeatmapResult and its queries. Indices are 0-based as in the source;    *)
(* a matrix is a sequence of rows, row i of the source at position i + 1.  *)
(***************************************************************************)

\* xs[i] of the source for an index inside the array
elem(xs, i) == xs[i + 1]

\* the position of the first aggregated sector with the code, -1 if none:
\* sectorIdx[code], -1 standing for undefined
sectorIdx(aggSectors, code) ==
    LET at_ == {i \in 1..Len(aggSectors) : aggSectors[i].code = code}
    IN  IF at_ = {} THEN -1 ELSE minOf(at_) - 1

\* the loop over the sectors that generates the aggregated sectors
RECURSIVE aggregateSectors(_, _)
aggregateSectors(aggSectors, sectors) ==
    IF sectors = <<>> THEN aggSectors
    ELSE LET s == Head(sectors)
             idx == Len(aggSectors)
             agg == [code |-> s.code,
                     id |-> toLowerCase(s.code \o "/" \o s.name),
                     index |-> idx,
                     name |-> s.name,
                     description |-> s.description,
                     location |-> Null]
         IN  IF sectorIdx(aggSectors, s.code) = -1
             THEN aggregateSectors(Append(aggSectors, agg), Tail(sectors))
             ELSE aggregateSectors(aggSectors, Tail(sectors))

\* the loop with = in place of +=: a column keeps the value of the last
\* sector of its code
RECURSIVE aggregateRow_lastWins(_, _, _, _)
aggregateRow_lastWins(aggRow, row, sectors, aggSectors) ==
    IF sectors = <<>> THEN aggRow
    ELSE LET sector == Head(sectors)
             j == sectorIdx(aggSectors, sector.code)
         IN  aggregateRow_lastWins(
                 [aggRow EXCEPT ![j + 1] = elem(row, sector.index)],
                 row, Tail(sectors), aggSectors)

\* sectors.forEach(sector => aggRow[j] += row[sector.index])
RECURSIVE aggregateRow(_, _, _, _)
aggregateRow(aggRow, row, sectors, aggSectors) ==
    IF sectors = <<>> THEN aggRow
    ELSE LET sector == Head(sectors)
             j == sectorIdx(aggSectors, sector.code)
         IN  aggregateRow(
                 [aggRow EXCEPT ![j + 1] = numAdd(@, elem(row, sector.index))],
                 row, Tail(sectors), aggSectors)

\* aggregateByRegions(result, model), the futures of the model resolved
aggregateByRegions(result, model) ==
    IF ~model.isMultiRegional
    THEN [sectors |-> model.sectors, result |-> result]
    ELSE LET sectors == model.sectors
             aggSectors == aggregateSectors(<<>>, sectors)
             data == [i \in 1..Len(result.data) |->
                        aggregateRow([k \in 1..Len(aggSectors) |-> Zero],
                                     result.data[i], sectors, aggSectors)]
         IN  [sectors |-> aggSectors,
              result |-> [data |-> data,
                          indicators |-> result.indicators,
                          sectors |-> [k \in 1..Len(aggSectors) |-> aggSectors[k].id],
                          totals |-> result.totals]]

\* this.normalized as the constructor computes it; a total missing from
\* totals is undefined, which is falsy like 0
normalizedOf(result) ==
    [i \in 1..Len(result.data) |->
        LET total == IF i <= Len(result.totals) THEN result.totals[i] ELSE Zero
            row == result.data[i]
        IN  [j \in 1..Len(row) |->
                IF total = Zero \/ row[j] = Zero THEN Zero
                ELSE numDiv(row[j], total)]]

\* row.reduce((max, x) => Math.max(max, Math.abs(x)), 0)
RECURSIVE maxAbs(_, _)
maxAbs(max, row) ==
    IF row = <<>> THEN max
    ELSE maxAbs(Math_max(max, Math_abs(Head(row))), Tail(row))

maxIndicatorValues(normalized) ==
    [i \in 1..Len(normalized) |->
        IF Len(normalized[i]) = 0 THEN Zero ELSE maxAbs(Zero, normalized[i])]

\* this.shares as the constructor computes it: 100 * x / max is (100 * x) / max
sharesOf(normalized) ==
    [i \in 1..Len(normalized) |->
        LET max == maxIndicatorValues(normalized)[i]
            row == normalized[i]
        IN  [j \in 1..Len(row) |->
                LET x == row[j]
                IN  IF x = Zero THEN Zero
                    ELSE IF max = Zero
                         THEN (IF qLeq(Zero, x) THEN Hundred ELSE qNeg(Hundred))
                    ELSE numDiv(numMul(Hundred, x), max)]]

\* new HeatmapResult(sectors, result)
HeatmapResult(sectors, result) ==
    [sectors |-> sectors,
     result |-> result,
     normalized |-> normalizedOf(result),
     shares |-> sharesOf(normalizedOf(result))]

\* HeatmapResult.from(model, result)
HeatmapResult_from(model, result) ==
    LET r == aggregateByRegions(result, model)
    IN  HeatmapResult(r.sectors, r.result)

\* a lookup that answers a column beyond the row with the row's last entry
value_clamped(data, row, column) ==
    IF data = Null THEN Zero
    ELSE IF row < 0 \/ row >= Len(data) THEN Zero
    ELSE LET xs == elem(data, row)
         IN  IF column < 0 THEN Zero
             ELSE IF column >= Len(xs) THEN xs[Len(xs)]
             ELSE elem(xs, column)

\* value(data, row, column)
value(data, row, column) ==
    IF data = Null THEN Zero
    ELSE IF row < 0 \/ row >= Len(data) THEN Zero
    ELSE LET xs == elem(data, row)
         IN  IF column < 0 \/ column >= Len(xs) THEN Zero
             ELSE elem(xs, column)

\* getResult(indicator, sector); a null argument is Null, another <<object>>
getResult(h, indicator, sector) ==
    IF indicator = Null \/ sector = Null THEN Zero
    ELSE value(h.result.data, indicator[1].index, sector[1].index)

getShare(h, indicator, sector) ==
    IF indicator = Null \/ sector = Null THEN Zero
    ELSE value(h.shares, indicator[1].index, sector[1].index)

\* name.indexOf(filter) >= 0
contains(name, filter) ==
    \E i \in 1..(Len(name) - Len(filter) + 1) :
        SubSeq(name, i, i + Len(filter) - 1) = filter

\* matchesFilter(sector, filter); filter Null or <<text>>; a sector without
\* a name has the name ""
matchesFilter(sector, filter) ==
    IF filter = Null \/ filter[1] = "" THEN TRUE
    ELSE IF sector.name = "" THEN FALSE
    ELSE contains(toLowerCase(sector.name), filter[1])

\* getRankingValue(sector, indicators)
RECURSIVE rankingSum(_, _, _, _)
rankingSum(h, sum, indicators, column) ==
    IF indicators = <<>> THEN sum
    ELSE rankingSum(h,
                    numAdd(sum, value(h.normalized, Head(indicators).index, column)),
                    Tail(indicators), column)

getRankingValue(h, sector, indicators) ==
    rankingSum(h, Zero, indicators, sector.index)

\* the loop of getRanking that collects the pairs [sector, value]
RECURSIVE collectRanks(_, _, _, _)
collectRanks(h, sectors, filter, indicators) ==
    IF sectors = <<>> THEN <<>>
    ELSE LET sector == Head(sectors)
             rest == collectRanks(h, Tail(sectors), filter, indicators)
         IN  IF ~matchesFilter(sector, filter) THEN rest
             ELSE <<<<sector, getRankingValue(h, sector, indicators)>>>> \o rest

\* a sort that puts a pair in front of the pairs of equal value
RECURSIVE insertRank_beforeEqual(_, _)
insertRank_beforeEqual(sorted, r) ==
    IF sorted = <<>> THEN <<r>>
    ELSE IF qLeq(Head(sorted)[2], r[2]) THEN <<r>> \o sorted
    ELSE <<Head(sorted)>> \o insertRank_beforeEqual(Tail(sorted), r)

\* ranks.sort((r1, r2) => r2[1] - r1[1]): Array.prototype.sort is stable
\* (ECMAScript 2019), so a pair goes behind every pair the comparator does
\* not put after it
RECURSIVE insertRank(_, _)
insertRank(sorted, r) ==
    IF sorted = <<>> THEN <<r>>
    ELSE IF qLess(Head(sorted)[2], r[2]) THEN <<r>> \o sorted
    ELSE <<Head(sorted)>> \o insertRank(Tail(sorted), r)

RECURSIVE sortRanks(_, _)
sortRanks(sorted, ranks) ==
    IF ranks = <<>> THEN sorted
    ELSE sortRanks(insertRank(sorted, Head(ranks)), Tail(ranks))

\* xs.slice(0, count)
slice0(xs, count) ==
    LET end == IF count < 0 THEN maxOf({Len(xs) + count, 0})
               ELSE minOf({count, Len(xs)})
    IN  SubSeq(xs, 1, end)

\* getRanking(indicators, count, nameFilter); nameFilter Null or <<text>>
getRanking(h, indicators, count, nameFilter) ==
    LET filter == IF nameFilter # Null /\ Len(trim(nameFilter[1])) > 0
                  THEN <<toLowerCase(trim(nameFilter[1]))>>
                  ELSE Null
        ranks == sortRanks(<<>>, collectRanks(h, h.sectors, filter, indicators))
        top == slice0(ranks, count)
    IN  [k \in 1..Len(top) |-> top[k][1]]

(***************************************************************************)
(* The result pipeline as a state machine: a Model and a Result arrive,    *)
(* HeatmapResult.from builds the HeatmapResult, the rendering queries it.  *)
(***************************************************************************)
sector(code, index, name, location) ==
    [code |-> code,
     id |-> toLowerCase(code \o "/" \o name \o "/" \o location),
     index |-> index,
     name |-> name,
     description |-> "",
     location |-> <<location>>]

\* a model of two regions: the code A in both of them
TwoRegions ==
    [isMultiRegional |-> TRUE,
     sectors |-> <<sector("A", 0, "Steel", "US"),
                   sector("B", 1, "Textiles", "US"),
                   sector("A", 2, "Steel", "GA")>>]
\* a model of three regions with one sector
ThreeRegions ==
    [isMultiRegional |-> TRUE,
     sectors |-> <<sector("A", 0, "Steel", "US"),
                   sector("A", 1, "Steel", "GA"),
                   sector("A", 2, "Steel", "ME")>>]
\* a model of one region
OneRegion ==
    [isMultiRegional |-> FALSE,
     sectors |-> <<sector("S", 0, "Steel", "US"),
                   sector("W", 1, "Steelworks", "US"),
                   sector("T", 2, "Textiles", "US")>>]
Models == {TwoRegions, ThreeRegions, OneRegion}

\* rows of a result with their totals
resultRow(x, y, z, total) ==
    [row |-> <<int(x), int(y), int(z)>>, total |-> int(total)]
RowA == resultRow(10, 4, 0, 14)
RowB == resultRow(7, 0, 2, 9)
RowC == resultRow(1, 1, 1, 3)
RowD == resultRow(129, 60, 128, 318)
RowE == resultRow(5, -5, 3, 0)
RowF == resultRow(-4, 2, 0, 8)
ResultRowPairs ==
    {<<RowA, RowB>>, <<RowB, RowC>>, <<RowC, RowE>>, <<RowD, RowA>>,
     <<RowE, RowF>>, <<RowF, RowD>>, <<RowC, RowA>>, <<RowE, RowE>>}

\* the results: two indicators, three sector columns
Results ==
    {[data |-> <<p[1].row, p[2].row>>,
      indicators |-> <<"GHG", "ACID">>,
      sectors |-> <<"s0", "s1", "s2">>,
      totals |-> <<p[1].total, p[2].total>>] : p \in ResultRowPairs}

\* the arguments of the queries: null, or an object with an index inside
\* or outside the matrix
IndicatorArgs == {Null} \cup {<<[index |-> i]>> : i \in -1..2}
SectorArgs == {Null} \cup {<<sector("X", j, "x", "US")>> : j \in -1..3}
RankingIndicators ==
    {<<[index |-> 0]>>, <<[index |-> 0], [index |-> 1]>>,
     <<[index |-> 1], [index |-> 5]>>}
RankingCounts == 0..3
NameFilters == {Null, <<"  ">>, <<" STEEL ">>, <<"x">>}

\* a page with a model and a result loaded, no HeatmapResult yet
InitHeatmap ==
    /\ isReady = [w \in WidgetIds |-> FALSE]
    /\ queue = [w \in WidgetIds |-> <<>>]
    /\ listeners = [w \in WidgetIds |-> <<>>]
    /\ widgets = <<>>
    /\ href = "p"
    /\ scriptSrcs = <<>>
    /\ config = EmptyConfig
    /\ pending = 0
    /\ invoked = <<>>
    /\ lastOp = op("load", "", Null)
    /\ apiModel \in Models
    /\ apiResult \in Results
    /\ heatmap = Null
    /\ answer = Null

protocolVars == <<isReady, queue, listeners, widgets, config, href,
                  scriptSrcs, pending, invoked>>

\* HeatmapResult.from(model, result)
From ==
    /\ heatmap = Null
    /\ heatmap' = <<HeatmapResult_from(apiModel, apiResult)>>
    /\ answer' = Null
    /\ lastOp' = op("from", "", Null)
    /\ UNCHANGED <<protocolVars, apiModel, apiResult>>

GetResult(indicator, sector_) ==
    /\ heatmap # Null
    /\ answer' = <<getResult(heatmap[1], indicator, sector_)>>
    /\ lastOp' = op("getResult", "", <<indicator, sector_>>)
    /\ UNCHANGED <<protocolVars, apiModel, apiResult, heatmap>>

GetShare(indicator, sector_) ==
    /\ heatmap # Null
    /\ answer' = <<getShare(heatmap[1], indicator, sector_)>>
    /\ lastOp' = op("getShare", "", <<indicator, sector_>>)
    /\ UNCHANGED <<protocolVars, apiModel, apiResult, heatmap>>

GetRanking(indicators, count, nameFilter) ==
    /\ heatmap # Null
    /\ answer' = <<getRanking(heatmap[1], indicators, count, nameFilter)>>
    /\ lastOp' = op("getRanking", "", <<indicators, count, nameFilter>>)
    /\ UNCHANGED <<protocolVars, apiModel, apiResult, heatmap>>

NextHeatmap ==
    \/ From
    \/ \E i \in IndicatorArgs, s \in SectorArgs : GetResult(i, s)
    \/ \E i \in IndicatorArgs, s \in SectorArgs : GetShare(i, s)
    \/ \E is \in RankingIndicators, n \in RankingCounts, f \in NameFilters :
         GetRanking(is, n, f)

SpecHeatmap == InitHeatmap /\ [][NextHeatmap]_vars

(***************************************************************************)
(* Properties                                                              *)
(***************************************************************************)

\* update(arg) on widget w is accepted: arg is a config whose source is not w
accepted(w, arg) == arg # Null /\ arg[1].source # w

\* r is base with every property of over written over it, property by
\* property; the properties in except are not compared
overridden(r, base, over, except) ==
    /\ r.def \ except = (base.def \cup over.def) \ except
    /\ \A f \in Fields \ except :
          r[f] = IF f \in over.def THEN over[f] ELSE base[f]

\* C1: every accepted update made while the widget is not ready becomes the
\* newest queued entry, and the step that makes the widget ready invokes
\* the handler exactly once, with the newest queued config (the config of
\* the last accepted update), applying no earlier one.
C1_ReadyAppliesLastUpdate ==
    [][\A w \in WidgetIds :
        /\ (lastOp'.op = "Widget.update" /\ lastOp'.w = w /\ ~isReady[w]
              /\ accepted(w, lastOp'.arg))
            => /\ queue'[w] # <<>>
               /\ queue'[w][Len(queue'[w])] = lastOp'.arg[1]
               /\ invoked' = <<>>
        /\ (lastOp'.op = "Widget.update" /\ lastOp'.w = w /\ ~isReady[w]
              /\ ~accepted(w, lastOp'.arg))
            => queue'[w] = queue[w]
        /\ (lastOp'.op = "Widget.update" /\ lastOp'.w # w)
            => queue'[w] = queue[w]
        /\ (lastOp'.op = "ready" /\ lastOp'.w = w /\ queue[w] # <<>>)
            => /\ ~isReady[w] /\ isReady'[w]
               /\ invoked' = <<[w |-> w, config |-> queue[w][Len(queue[w])]]>>
      ]_vars

\* two different configs were queued, the widget became ready, and the one
\* handler call made has the later config
C1_Witness ==
    /\ lastOp.op = "ready"
    /\ Len(invoked) = 1
    /\ invoked[1].w = lastOp.w
    /\ queue[lastOp.w] # <<>>
    /\ queue[lastOp.w][1] # invoked[1].config

\* C2: update(arg) with arg null or arg.source the widget itself changes
\* nothing, whether the widget is ready or not: no handler call, the
\* queue, the readiness flags and the listeners as before.
C2_RejectedUpdateIsNoOp ==
    [][(lastOp'.op = "Widget.update" /\ ~accepted(lastOp'.w, lastOp'.arg))
        => /\ invoked' = <<>>
           /\ queue' = queue
           /\ isReady' = isReady
           /\ listeners' = listeners
      ]_vars

\* a ready widget with something still queued was sent its own config
C2_Witness ==
    /\ lastOp.op = "Widget.update"
    /\ lastOp.arg # Null
    /\ lastOp.arg[1].source = lastOp.w
    /\ isReady[lastOp.w]
    /\ \E w \in WidgetIds : ~isReady[w] /\ queue[w] # <<>>

\* w is in the transmitter's widget list
joined(w) == \E i \in 1..Len(widgets) : widgets[i] = w

\* the handler of w was called with config c by the operation ending in
\* the primed state
invokedNext(w, c) ==
    \E i \in 1..Len(invoked') : invoked'[i] = [w |-> w, config |-> c]

\* C3 as stated, for a navigation the user made (back/forward or a manual
\* edit of the hash) whose event is delivered right after it: the fields
\* parsed from the URL are merged over the stored config and every joined
\* ready widget's handler is invoked with the result.
C3_NavigationInvokesEveryReadyWidget ==
    [][(lastOp.op = "navigate" /\ lastOp'.op = "onHashChanged")
        => /\ overridden(config', config, parseUrlConfig(href, <<>>, FALSE), {})
           /\ \A w \in WidgetIds :
                (joined(w) /\ isReady[w]) => invokedNext(w, config')
      ]_vars

\* C4 as stated: join appends the widget and pushes the stored config to
\* it within the call: handler invoked if ready, queued if not.
C4_Original ==
    [][lastOp'.op = "join"
        => /\ widgets' = Append(widgets, lastOp'.w)
           /\ isReady[lastOp'.w]
                => invoked' = <<[w |-> lastOp'.w, config |-> config]>>
           /\ ~isReady[lastOp'.w]
                => queue'[lastOp'.w] = Append(queue[lastOp'.w], config)
      ]_vars

\* C4, amended: join appends the widget and calls its update with the
\* stored config within the call: unless the stored config's source is that
\* widget (a widget joined again after its own change), a ready widget's
\* handler is invoked with it and a widget that is not ready holds it as
\* its newest queued entry; when the source is that widget nothing is
\* invoked or queued.
C4_JoinPushesUnlessOwnSource ==
    [][lastOp'.op = "join"
        => /\ widgets' = Append(widgets, lastOp'.w)
           /\ config' = config
           /\ (isReady[lastOp'.w] /\ config.source # lastOp'.w)
                => /\ invoked' = <<[w |-> lastOp'.w, config |-> config]>>
                   /\ queue' = queue
           /\ (~isReady[lastOp'.w] /\ config.source # lastOp'.w)
                => /\ queue'[lastOp'.w] = Append(queue[lastOp'.w], config)
                   /\ invoked' = <<>>
           /\ config.source = lastOp'.w
                => invoked' = <<>> /\ queue' = queue
      ]_vars

\* a ready widget was joined and its handler got the stored config
C4_Witness ==
    /\ lastOp.op = "join"
    /\ isReady[lastOp.w]
    /\ widgets[Len(widgets)] = lastOp.w
    /\ invoked = <<[w |-> lastOp.w, config |-> config]>>

\* C5: a change event fired by a joined widget leaves the stored config
\* equal to the previous one overridden property by property by the event's
\* config, with source the widget, and the URL's hash is the encoding of
\* that stored config.
C5_ChangeMergesStampsAndEncodes ==
    [][(lastOp'.op = "fireChange" /\ listeners[lastOp'.w] # <<>>)
        => /\ overridden(config', config, lastOp'.arg[1], {"source"})
           /\ "source" \in config'.def
           /\ config'.source = lastOp'.w
           /\ href' = setLocationHash(href, encodeHash(config'))
      ]_vars

\* a joined widget fired a change of sectors over a stored config that
\* held a year
C5_Witness ==
    /\ lastOp.op = "fireChange"
    /\ listeners[lastOp.w] # <<>>
    /\ config.source = lastOp.w
    /\ config.sectors = <<"a", "b">>
    /\ "year" \in config.def
    /\ href = "p#sectors=a,b&year=2020"

\* C6: transmitter.update(c) leaves the stored config equal to the previous
\* one overridden property by property by c, with source the transmitter,
\* rewrites the hash to its encoding, and calls no widget's update: no
\* handler call, every queue as before.
C6_UpdateMergesWithoutPush ==
    [][lastOp'.op = "update"
        => /\ overridden(config', config, lastOp'.arg[1], {"source"})
           /\ "source" \in config'.def
           /\ config'.source = TransmitterId
           /\ href' = setLocationHash(href, encodeHash(config'))
           /\ invoked' = <<>>
           /\ queue' = queue
           /\ isReady' = isReady
      ]_vars

\* update was called with a ready widget and a waiting widget joined
C6_Witness ==
    /\ lastOp.op = "update"
    /\ config.analysis = "Production"
    /\ config.source = TransmitterId
    /\ \E a, b \in WidgetIds :
         /\ joined(a) /\ isReady[a]
         /\ joined(b) /\ ~isReady[b] /\ queue[b] # <<>>
    /\ invoked = <<>>

\* the last operation wrote the hash
hashWritten ==
    \/ lastOp.op = "update"
    \/ lastOp.op = "fireChange" /\ listeners[lastOp.w] # <<>>

\* the values the URL's hash gives for a key
hashValues(key) ==
    LET ps == getParameters(getHashPart(href))
    IN  SelectSeq(ps, LAMBDA kv : kv[1] = key)

\* C9: the hash the transmitter writes has a sectors (indicators) parameter
\* only for a non-empty stored list, as the comma-joined list; a type,
\* perspective, year, location or model parameter only for a truthy stored
\* value; and no other parameter, so never the source.
C9_HashHoldsOnlySetFields ==
    hashWritten =>
      /\ \A kv \in {getParameters(getHashPart(href))[i] :
                      i \in 1..Len(getParameters(getHashPart(href)))} :
           kv[1] \in {"sectors", "indicators", "type", "perspective", "year",
                      "location", "model"}
      /\ hashValues("sectors") =
           IF "sectors" \in config.def /\ config.sectors # <<>>
           THEN << <<"sectors", join(config.sectors, ",")>> >> ELSE <<>>
      /\ hashValues("indicators") =
           IF "indicators" \in config.def /\ config.indicators # <<>>
           THEN << <<"indicators", join(config.indicators, ",")>> >> ELSE <<>>
      /\ hashValues("type") =
           IF "analysis" \in config.def /\ config.analysis # ""
           THEN << <<"type", config.analysis>> >> ELSE <<>>
      /\ hashValues("perspective") =
           IF "perspective" \in config.def /\ config.perspective # ""
           THEN << <<"perspective", config.perspective>> >> ELSE <<>>
      /\ hashValues("year") =
           IF "year" \in config.def /\ ~config.year.nan /\ config.year.n # 0
           THEN << <<"year", numToString(config.year)>> >> ELSE <<>>
      /\ hashValues("location") =
           IF "location" \in config.def /\ config.location # ""
           THEN << <<"location", config.location>> >> ELSE <<>>
      /\ hashValues("model") =
           IF "model" \in config.def /\ config.model # ""
           THEN << <<"model", config.model>> >> ELSE <<>>

\* the hash was written for a stored config with an empty sectors list, a
\* year that is 0, a source and an analysis: only the analysis is in it
C9_Witness ==
    /\ lastOp.op = "update"
    /\ "sectors" \in config.def /\ config.sectors = <<>>
    /\ "year" \in config.def /\ config.year = Num(0)
    /\ "source" \in config.def
    /\ href = "p#type=Production"

\* the URL has a year parameter and every year parameter is non-numeric
yearNonNumeric(url) ==
    LET ps == getParameters(getHashPart(url)) \o getParameters(getParameterPart(url))
        ys == SelectSeq(ps, LAMBDA kv : kv[1] = "year")
    IN  /\ ys # <<>>
        /\ \A i \in 1..Len(ys) : parseInt(ys[i][2]) = NaN

\* C10 as stated: decoding a URL whose year is non-numeric text leaves year
\* unset, so a navigation event with such a URL leaves the stored year as
\* it was.
C10_NonNumericYearLeavesYear ==
    [][(lastOp'.op = "onHashChanged" /\ yearNonNumeric(href))
        => /\ "year" \notin parseUrlConfig(href, <<>>, FALSE).def
           /\ config'.year = config.year
           /\ ("year" \in config'.def) = ("year" \in config.def)
      ]_vars

\* the parameters of the page URL and of the script URLs in the order
\* page hash, page query, then every script's hash and query
allParams ==
    LET urls == <<href>> \o SelectSeq(scriptSrcs, LAMBDA u : u # "")
        F[i \in 0..Len(urls)] ==
            IF i = 0 THEN <<>>
            ELSE F[i - 1] \o getParameters(getHashPart(urls[i]))
                          \o getParameters(getParameterPart(urls[i]))
    IN  F[Len(urls)]

\* the URL keys of a field
keysOf(f) == IF f = "analysis" THEN {"type", "analysis"} ELSE {f}

\* the value a parameter's text gives field f, Null if it gives none: an
\* unknown analysis or perspective, a year that is not a number
valueGiven(f, val) ==
    CASE f \in {"sectors", "indicators"} -> <<split(val, ",")>>
      [] f = "year" -> IF parseInt(val) = NaN THEN Null ELSE <<parseInt(val)>>
      [] f = "analysis" ->
           IF toLowerCase(val) = "consumption" THEN <<"Consumption">>
           ELSE IF toLowerCase(val) = "production" THEN <<"Production">>
           ELSE Null
      [] f = "perspective" ->
           IF getPerspective(val) = "" THEN Null ELSE <<getPerspective(val)>>
      [] OTHER -> <<val>>

\* the value the first parameter that supplies field f gives it
firstGiven(f) ==
    LET at == {i \in 1..Len(allParams) :
                 /\ allParams[i][1] \in keysOf(f)
                 /\ valueGiven(f, allParams[i][2]) # Null}
    IN  IF at = {} THEN Null ELSE valueGiven(f, allParams[minOf(at)][2])

\* C7 as stated: the config parsed at construction gives every field the
\* value of the first source, in the order page hash, page query, script
\* hashes and queries, that supplies the field; no later source overrides it.
C7_FirstSourceWins ==
    lastOp.op = "constructor" =>
      \A f \in Fields \ {"source"} :
        firstGiven(f) # Null
          => f \in config.def /\ config[f] = firstGiven(f)[1]

\* C8 as stated: for a config of recognized fields only, written by
\* update(c) on a page whose URL had no parameters and read back from the
\* hash, every field of c other than source has the value it had in c.
C8_RoundTrip ==
    (/\ lastOp.op = "reload"
     /\ getParameters(getParameterPart(href)) = <<>>
     /\ scriptSrcs = <<>>)
      => \A f \in lastOp.arg[1].def \ {"source"} :
            f \in config.def /\ config[f] = lastOp.arg[1][f]

\* the exact sum of the entries of a row
RECURSIVE exactSum(_)
exactSum(row) ==
    IF row = <<>> THEN Zero ELSE qAdd(Head(row), exactSum(Tail(row)))

\* the sectors of the model with the code, in the order of the sector list
sectorsOfCode(code) == SelectSeq(apiModel.sectors, LAMBDA s : s.code = code)

\* the entries of an original row in the columns of the given sectors
entriesOf(row, sectors) == [k \in 1..Len(sectors) |-> elem(row, sectors[k].index)]

\* the entries added from the left, starting from 0, with the rounded +
RECURSIVE floatSum(_)
floatSum(xs) ==
    IF xs = <<>> THEN Zero
    ELSE numAdd(floatSum(SubSeq(xs, 1, Len(xs) - 1)), xs[Len(xs)])

\* the codes of the sectors of the model, without repetition
codesOf(sectors) == {sectors[k].code : k \in 1..Len(sectors)}

\* a HeatmapResult was built from a multi-regional model
aggregated == heatmap # Null /\ apiModel.isMultiRegional

within(x, bound) == qLeq(qNeg(bound), x) /\ qLeq(x, bound)

\* the largest magnitude of the entries of a row
largestMagnitude(row) ==
    CHOOSE m \in {Math_abs(row[j]) : j \in 1..Len(row)} :
        \A j \in 1..Len(row) : qLeq(Math_abs(row[j]), m)

\* C12 as stated, for the matrix the HeatmapResult was constructed from:
\* in a row with a nonzero total and no entry larger in magnitude than the
\* total, every normalized entry is in [-1, 1] and every share in
\* [-100, 100]; an entry that is zero or whose row total is zero has the
\* normalized value 0 and the share 0; in a row with a nonzero total and a
\* nonzero entry, the entry of largest magnitude has a share of magnitude
\* 100.
C12_NormalizationBounds ==
    heatmap # Null =>
      \A i \in 1..Len(heatmap[1].result.data) :
        LET row == heatmap[1].result.data[i]
            total == heatmap[1].result.totals[i]
            normalized == heatmap[1].normalized[i]
            shares == heatmap[1].shares[i]
            wellFormed == \A j \in 1..Len(row) :
                             qLeq(Math_abs(row[j]), Math_abs(total))
        IN  /\ (total # Zero /\ wellFormed) =>
                 \A j \in 1..Len(row) :
                    /\ within(normalized[j], int(1))
                    /\ within(shares[j], Hundred)
            /\ \A j \in 1..Len(row) :
                 (row[j] = Zero \/ total = Zero)
                    => normalized[j] = Zero /\ shares[j] = Zero
            /\ (total # Zero /\ \E j \in 1..Len(row) : row[j] # Zero) =>
                 \A j \in 1..Len(row) :
                    Math_abs(row[j]) = largestMagnitude(row)
                       => Math_abs(shares[j]) = Hundred

\* the name of the sector passes the filter: the filter is null or blank,
\* or the name contains it, both in lower case and the filter trimmed
passes(s, nameFilter) ==
    \/ nameFilter = Null
    \/ trim(nameFilter[1]) = ""
    \/ contains(toLowerCase(s.name), toLowerCase(trim(nameFilter[1])))

\* the ranking the claim describes: the passing sectors in list order, each
\* at the position that the number of sectors before it gives: those of a
\* larger sum, and those of the same sum that come earlier in the list
rankingOf(h, indicators, count, nameFilter) ==
    LET cands == SelectSeq(h.sectors, LAMBDA s : passes(s, nameFilter))
        score(k) == getRankingValue(h, cands[k], indicators)
        pos(k) == 1 + Cardinality({j \in 1..Len(cands) :
                          \/ qLess(score(k), score(j))
                          \/ score(j) = score(k) /\ j < k})
        sorted == [q \in 1..Len(cands) |->
                     cands[CHOOSE k \in 1..Len(cands) : pos(k) = q]]
    IN  SubSeq(sorted, 1, minOf({count, Len(cands)}))

\* C13: getRanking returns the first count elements, all if there are
\* fewer, of the sectors whose name passes the filter, sorted by descending
\* sum of the normalized values over the given indicators, sectors of
\* equal sum in the order of the sector list.
C13_RankingIsStableTopN ==
    lastOp.op = "getRanking" =>
        answer[1] = rankingOf(heatmap[1], lastOp.arg[1], lastOp.arg[2],
                              lastOp.arg[3])

\* a ranking over the first indicator with the filter " STEEL " in a model
\* of one region whose three sectors have the same normalized value: Steel
\* and Steelworks pass and come out in list order
C13_Witness ==
    /\ lastOp.op = "getRanking"
    /\ lastOp.arg[3] = <<" STEEL ">>
    /\ lastOp.arg[1] = <<[index |-> 0]>>
    /\ lastOp.arg[2] = 3
    /\ heatmap[1].normalized[1][1] # Zero
    /\ heatmap[1].normalized[1][1] = heatmap[1].normalized[1][2]
    /\ Len(answer[1]) = 2
    /\ answer[1][1].name = "Steel"
    /\ answer[1][2].name = "Steelworks"

\* what a lookup in the matrix is to return for the two arguments
lookup(matrix, indicator, sector_) ==
    IF indicator = Null \/ sector_ = Null THEN Zero
    ELSE LET i == indicator[1].index
             j == sector_[1].index
         IN  IF i \in 0..(Len(matrix) - 1) /\ j \in 0..(Len(matrix[i + 1]) - 1)
             THEN matrix[i + 1][j + 1]
             ELSE Zero

\* C14: getResult and getShare return 0 when the indicator or the sector
\* is null or an index is negative or beyond the matrix, and the entry at
\* (indicator.index, sector.index) of the data, respectively of the shares,
\* otherwise; every such call returns a number.
C14_DefensiveLookups ==
    /\ lastOp.op = "getResult" =>
         answer = <<lookup(heatmap[1].result.data, lastOp.arg[1], lastOp.arg[2])>>
    /\ lastOp.op = "getShare" =>
         answer = <<lookup(heatmap[1].shares, lastOp.arg[1], lastOp.arg[2])>>
    /\ heatmap # Null =>
         \A i \in IndicatorArgs, s \in SectorArgs :
            ENABLED GetResult(i, s) /\ ENABLED GetShare(i, s)

\* getResult was asked for the first indicator and a sector whose index is
\* one beyond the last column of a row of nonzero entries, and returned 0
C14_Witness ==
    /\ lastOp.op = "getResult"
    /\ lastOp.arg[1] = <<[index |-> 0]>>
    /\ lastOp.arg[2] # Null
    /\ lastOp.arg[2][1].index = Len(heatmap[1].result.data[1])
    /\ \A j \in 1..Len(heatmap[1].result.data[1]) :
          heatmap[1].result.data[1][j] # Zero
    /\ answer = <<Zero>>

\* C15 as stated: updateIfAbsent(conf) leaves every field that is defined
\* in the stored config, other than source, at its value and sets exactly
\* the fields of conf that are not defined yet; when conf has no such
\* field, or is null, the stored config with its source and the URL are as
\* before and no navigation event is caused.
C15_UpdateIfAbsentSetsOnlyUndefined ==
    [][lastOp'.op = "updateIfAbsent" =>
        LET conf == IF lastOp'.arg = Null THEN EmptyConfig ELSE lastOp'.arg[1]
            absent == conf.def \ config.def
        IN  /\ \A f \in config.def \ {"source"} :
                 f \in config'.def /\ config'[f] = config[f]
            /\ \A f \in absent : f \in config'.def /\ config'[f] = conf[f]
            /\ config'.def \ {"source"} = (config.def \cup absent) \ {"source"}
            /\ absent = {} =>
                 /\ config' = config
                 /\ href' = href
                 /\ pending' = pending
            /\ invoked' = <<>>
      ]_vars

\* C16 as stated: the buffer of pending updates of a widget never holds
\* more than one entry: an accepted update that arrives while the widget is
\* not ready leaves the buffer holding that update alone, and the buffer of
\* a ready widget is empty.
C16_SingleSlotBuffer ==
    /\ \A w \in WidgetIds :
         /\ Len(queue[w]) <= 1
         /\ isReady[w] => queue[w] = <<>>
    /\ (/\ lastOp.op = "Widget.update"
        /\ accepted(lastOp.w, lastOp.arg)
        /\ ~isReady[lastOp.w])
         => queue[lastOp.w] = <<lastOp.arg[1]>>

\* the configs the widgets receive by the operation ending in the primed
\* state: those their handlers are invoked with and those newly queued
received ==
    {invoked'[i].config : i \in 1..Len(invoked')}
       \cup UNION {{queue'[w][k] : k \in (Len(queue[w]) + 1)..Len(queue'[w])} :
                     w \in WidgetIds}

\* C17 as stated: a change event leaves the stored source the widget that
\* fired it, transmitter.update leaves it the transmitter, and a navigation
\* the user made leaves the stored config, and the configs the widgets
\* receive for it, without the identity of a widget as source.
C17_EveryMutatorStampsSource ==
    [][/\ lastOp'.op = "fireChange" /\ listeners[lastOp'.w] # <<>>
            => config'.source = lastOp'.w
       /\ lastOp'.op = "update" => config'.source = TransmitterId
       /\ (lastOp.op = "navigate" /\ lastOp'.op = "onHashChanged")
            => /\ config'.source \notin WidgetIds
               /\ \A c \in received : c.source \notin WidgetIds
      ]_vars

C19_ReadyIsOneWayAndImmediate ==
    [][/\ \A w \in WidgetIds : isReady[w] => isReady'[w]
       /\ (/\ lastOp'.op = "Widget.update"
           /\ accepted(lastOp'.w, lastOp'.arg)
           /\ isReady[lastOp'.w])
            => /\ invoked' = <<[w |-> lastOp'.w, config |-> lastOp'.arg[1]]>>
               /\ queue' = queue
      ]_vars

\* a ready widget that still holds a queued entry got an accepted update
C19_Witness ==
    /\ lastOp.op = "Widget.update"
    /\ accepted(lastOp.w, lastOp.arg)
    /\ isReady[lastOp.w]
    /\ queue[lastOp.w] # <<>>
    /\ invoked = <<[w |-> lastOp.w, config |-> lastOp.arg[1]]>>

\* the fields the URL sets: those of its fragment and of its query string
urlFields(url) == parseUrlConfig(url, <<>>, FALSE).def

\* the fields the query string of the URL sets
queryFields(url) == urlFields(split(url, "#")[1])

\* field f of the stored config has the same value after the step
kept(f) == f \in config'.def /\ config'[f] = config[f]

\* widget.update(c) was called on w and took effect: the handler was
\* invoked when w is ready, c became the newest queued entry when it is not
tookNext(w, c) ==
    IF isReady[w] THEN invokedNext(w, c)
    ELSE queue'[w] = Append(queue[w], c)

====
